---- MODULE Spec2Model ----
(***************************************************************************)
(* Model of the DEF CON archive pipeline:                                  *)
(*   - run_spider.py     : DefConSpider (crawl, admission, ledger, index)  *)
(*   - src/summarizer.py : summary providers and process_talk_pdfs         *)
(* Strings are sequences of one-character strings, so that the prefix,     *)
(* suffix, substring and split tests of the code are computed, not assumed.*)
(***************************************************************************)
EXTENDS Integers, Sequences, FiniteSets, TLC

(***************************************************************************)
(* Bounds of the model.                                                    *)
(***************************************************************************)
\* responses the engine hands to the spider's callbacks in one run
MaxSteps == 8
\* distinct response bodies are 0..MaxBody
MaxBody == 3

(***************************************************************************)
(* String helpers (Python str methods used by the code).                   *)
(***************************************************************************)
StartsWith(s, p) == Len(s) >= Len(p) /\ SubSeq(s, 1, Len(p)) = p

EndsWith(s, p) == Len(s) >= Len(p) /\ SubSeq(s, Len(s) - Len(p) + 1, Len(s)) = p

Contains(s, p) == \E i \in 1..(Len(s) - Len(p) + 1) : SubSeq(s, i, i + Len(p) - 1) = p

UpperAlpha == <<"A","B","C","D","E","F","G","H","I","J","K","L","M",
                "N","O","P","Q","R","S","T","U","V","W","X","Y","Z">>

LowerAlpha == <<"a","b","c","d","e","f","g","h","i","j","k","l","m",
                "n","o","p","q","r","s","t","u","v","w","x","y","z">>

LowerChar(c) == IF \E i \in 1..26 : UpperAlpha[i] = c
                THEN LowerAlpha[CHOOSE i \in 1..26 : UpperAlpha[i] = c]
                ELSE c

Lower(s) == [i \in 1..Len(s) |-> LowerChar(s[i])]

\* positions of the separator character in s
SepPositions(s, sep) == {i \in 1..Len(s) : s[i] = sep}

\* str.split(sep) for a one-character separator: the sequence of parts, one
\* more than there are separators, the k-th lying between the (k-1)-th and
\* the k-th separator
Split(s, sep) ==
    LET pos == SepPositions(s, sep)
        n   == Cardinality(pos)
        at(k) == IF k = 0 THEN 0
                 ELSE IF k = n + 1 THEN Len(s) + 1
                 ELSE CHOOSE p \in pos : Cardinality({q \in pos : q <= p}) = k
    IN [k \in 1..(n + 1) |-> SubSeq(s, at(k - 1) + 1, at(k) - 1)]

\* os.path.basename: what follows the last "/"
basename(path) ==
    IF SepPositions(path, "/") = {}
    THEN path
    ELSE LET i == CHOOSE k \in SepPositions(path, "/") :
                      \A j \in SepPositions(path, "/") : k >= j
         IN SubSeq(path, i + 1, Len(path))

\* the directory part of a URL path, up to and including its last "/"
dirname(path) ==
    IF SepPositions(path, "/") = {}
    THEN <<>>
    ELSE LET i == CHOOSE k \in SepPositions(path, "/") :
                      \A j \in SepPositions(path, "/") : k >= j
         IN SubSeq(path, 1, i)

\* response.urljoin / response.follow for the links of the model: an
\* absolute path replaces the base path, a relative one is resolved against
\* the base's directory.  URLs are modelled by their path; the scheme and
\* host parts "https:", "", "media.defcon.org" never start with "DEF CON ".
\* A URL is the string the callbacks read from response.url; how the fetch
\* engine encodes it is outside the repository.
urljoin(base, link) ==
    IF StartsWith(link, <<"/">>) THEN link ELSE dirname(base) \o link

(***************************************************************************)
(* Literals of run_spider.py.                                              *)
(***************************************************************************)
DEF_CON_ == <<"D","E","F"," ","C","O","N"," ">>

Conference_Programs == <<"C","o","n","f","e","r","e","n","c","e"," ",
                         "P","r","o","g","r","a","m","s">>

allowed_paths == { DEF_CON_,
                   Conference_Programs,
                   DEF_CON_ \o <<"M","u","s","i","c">>,
                   DEF_CON_ \o <<"C","h","i","n","a">>,
                   DEF_CON_ \o <<"N","Y","E"," ","2","0","2","0">> }

allowed_extensions == { <<".","p","d","f">>, <<".","f","l","a","c">>,
                        <<".","o","p","u","s">>, <<".","t","x","t">> }

max_file_size == 100 * 1024 * 1024

start_url == <<"/">>

metadata_txt == <<"_","m","e","t","a","d","a","t","a",".","t","x","t">>

master_index_txt == <<"m","a","s","t","e","r","_","i","n","d","e","x",".","t","x","t">>

(***************************************************************************)
(* PathFilter.                                                             *)
(***************************************************************************)
is_allowed_path(path) == \E allowed \in allowed_paths : Contains(path, allowed)

is_allowed_file(filename) ==
    \E ext \in allowed_extensions : EndsWith(Lower(filename), ext)

is_subdirectory(path) == EndsWith(path, <<"/">>)

NoEvent == <<>>

\* get_event_name, mutated: any segment that merely contains "DEF CON " or is
\* an allowed path counts as an event
get_event_name_any_allowed(url) ==
    LET parts == Split(url, "/")
        hits  == {i \in 1..Len(parts) : parts[i] # <<>> /\ is_allowed_path(parts[i])}
    IN IF hits = {} THEN NoEvent
       ELSE parts[CHOOSE i \in hits : \A j \in hits : i <= j]

\* the first "/"-separated part that starts with "DEF CON ", or None
get_event_name(url) ==
    LET parts == Split(url, "/")
        hits  == {i \in 1..Len(parts) : StartsWith(parts[i], DEF_CON_)}
    IN IF hits = {} THEN NoEvent
       ELSE parts[CHOOSE i \in hits : \A j \in hits : i <= j]

(***************************************************************************)
(* State of one run of DefConSpider.                                       *)
(***************************************************************************)
VARIABLES
    pending,           \* requests the engine still has to fetch (unordered)
    downloaded_files,  \* self.downloaded_files: the seen-set of content hashes
    rootExists,        \* whether config.output_dir exists
    fsDirs,            \* subdirectories of output_dir: name -> (entry -> content)
    ledger,            \* <event>_metadata.txt files of output_dir: event -> lines
    masterIndex,       \* lines of output_dir/master_index.txt (<<>> when absent)
    phase,             \* "running", then "closed" once closed() has run
    closedError,       \* closed() raised
    steps,             \* responses handled so far
    writes,            \* history: the successful file writes of this run, in order
    appends,           \* history: the completed update_metadata calls, in order
    ledger0,           \* history: the ledgers as the run found them
    failed,            \* history: the bodies whose save ended in an I/O error
    handed,            \* history: the URLs whose response was handed to save_file
    last               \* history: the last callback invocation and its outcome

spiderVars == <<pending, downloaded_files, rootExists, fsDirs, ledger, masterIndex,
                phase, closedError, steps, writes, appends, ledger0, failed, handed,
                last>>

(***************************************************************************)
(* State of one call of process_talk_pdfs.                                 *)
(***************************************************************************)
VARIABLES
    listing,      \* the entries of os.listdir(pdf_dir) the loop has not reached yet
    no_summary,   \* the no_summary argument
    provider,     \* the provider argument
    environ,      \* the API key variables set in the environment
    summaries,    \* the files of output_dir: name -> the Summary dumped into it
    bpc,          \* "running", "done" (returned) or "aborted" (an exception escaped)
    raised,       \* the exception that escaped process_talk_pdfs, or "none"
    done,         \* history: entry -> what the loop did with it
    lastCall      \* history: the last provider call, its inputs and its outcome

batchVars == <<listing, no_summary, provider, environ, summaries, bpc, raised,
               done, lastCall>>

vars == <<spiderVars, batchVars>>

\* a truncated file, as a failed write leaves it
Partial == 0 - 1

Bodies == 0..MaxBody

\* hashlib.md5(body).hexdigest(): a function of the body that is not
\* injective (bodies 0 and MaxBody collide)
md5(body) == body % MaxBody

\* the hrefs the pages of the modelled site are made of
L_dc30 == DEF_CON_ \o <<"3","0","/">>
L_dc31 == DEF_CON_ \o <<"3","1","/">>
L_conf == Conference_Programs \o <<"/">>
L_apdf == <<"a",".","p","d","f">>
L_bTXT == <<"b",".","T","X","T">>
L_sub  == <<"s","/">>
L_html == <<"x",".","h","t","m","l">>

Links == {L_dc30, L_dc31, L_conf, L_apdf, L_bTXT, L_sub, L_html}

\* The listing pages of the modelled site, by URL path: the hrefs that
\* response.css('a::attr(href)').getall() returns for each.  Two events, a
\* subdirectory holding a file named like one of its parent, a root entry
\* that is no event, and links that match no rule.
Site ==
    (start_url :> {L_dc30, L_dc31, L_conf, L_html}) @@
    (<<"/">> \o L_dc30 :> {L_apdf, L_sub, L_html}) @@
    (<<"/">> \o L_dc30 \o L_sub :> {L_apdf}) @@
    (<<"/">> \o L_dc31 :> {L_bTXT}) @@
    (<<"/">> \o L_conf :> {L_apdf, L_sub})

page_links(url) == IF url \in DOMAIN Site THEN Site[url] ELSE {}

\* the Content-Length header of a response: absent, a number, or not a number
Headers == { [kind |-> "absent", value |-> 0],
             [kind |-> "text",   value |-> 0],
              [kind |-> "int",    value |-> max_file_size],
             [kind |-> "int",    value |-> max_file_size + 1] }

\* what the operating system does to the file operations of save_file
IoOutcomes == {"ok", "makedirs_fails", "open_fails", "write_fails", "append_fails"}

Request(url, callback, event_name) ==
    [url |-> url, callback |-> callback, event_name |-> event_name]

EmptyMap == <<>>

DC29 == DEF_CON_ \o <<"2","9">>
DC30 == DEF_CON_ \o <<"3","0">>
old_pdf == <<"o","l","d",".","p","d","f">>

\* what earlier runs may have left in output_dir
PriorRoots ==
    { [exists |-> FALSE, dirs |-> EmptyMap, ledger |-> EmptyMap, index |-> <<>>],
      [exists |-> TRUE,  dirs |-> EmptyMap, ledger |-> EmptyMap, index |-> <<>>],
      [exists |-> TRUE,
       dirs   |-> (DC29 :> (old_pdf :> 1)) @@ (DC30 :> (L_apdf :> 2)),
       ledger |-> (DC29 :> <<old_pdf>>) @@ (DC30 :> <<L_apdf>>),
       index  |-> << DC29 \o <<":">>, <<" "," ">> \o old_pdf, <<>> >>] }

NoDoc == [type |-> "none", fields |-> EmptyMap]

NoGen == [kind |-> "none", doc |-> NoDoc]

NoProviderCall ==
    [fn |-> "none", key_set |-> FALSE, live |-> "none", gen |-> NoGen,
     api |-> "none", text |-> <<>>, raised |-> "none", summary |-> [title |-> <<>>,
     main_points |-> <<>>, technical_details |-> <<>>, implications |-> <<>>],
     sent |-> <<>>]

\* the batch variables while the spider is what runs
BatchIdle ==
    /\ listing = <<>> /\ no_summary = FALSE /\ provider = "none" /\ environ = {}
    /\ summaries = EmptyMap /\ bpc = "idle" /\ raised = "none"
    /\ done = EmptyMap /\ lastCall = NoProviderCall

NoCall == [op |-> "none", url |-> <<>>, event_name |-> NoEvent, clen |-> 0,
           body |-> 0, result |-> "none", yielded |-> {}]

SpiderInit ==
    \E prior \in PriorRoots :
        /\ pending = {Request(start_url, "parse", NoEvent)}
        /\ downloaded_files = {}
        /\ rootExists = prior.exists
        /\ fsDirs = prior.dirs
        /\ ledger = prior.ledger
        /\ masterIndex = prior.index
        /\ phase = "running"
        /\ closedError = FALSE
        /\ steps = 0
        /\ writes = <<>>
        /\ appends = <<>>
        /\ ledger0 = prior.ledger
        /\ failed = {}
        /\ handed = {}
        /\ last = NoCall

\* the spider variables while the batch is what runs
SpiderIdle ==
    /\ pending = {} /\ downloaded_files = {} /\ rootExists = FALSE
    /\ fsDirs = EmptyMap /\ ledger = EmptyMap /\ masterIndex = <<>>
    /\ phase = "idle" /\ closedError = FALSE /\ steps = 0
    /\ writes = <<>> /\ appends = <<>> /\ ledger0 = EmptyMap /\ failed = {}
    /\ handed = {}
    /\ last = NoCall

(***************************************************************************)
(* CrawlTraversal: parse and parse_event.                                  *)
(***************************************************************************)
parse_yield(url, links) ==
    { Request(urljoin(url, link), "parse_event", NoEvent) :
        link \in {l \in links : is_allowed_path(l)} }

\* every URL a request of the run can carry: the start page and what the
\* links of the site's pages resolve to
Urls == {start_url} \cup DOMAIN Site
          \cup UNION { {urljoin(u, l) : l \in Site[u]} : u \in DOMAIN Site }

\* the callbacks' pure parts computed once per URL: what parse and
\* parse_event yield for the page, its event name, the name it is stored under
parse_yields == [u \in Urls |-> parse_yield(u, page_links(u))]

parse ==
    \E req \in pending :
        /\ phase = "running" /\ steps < MaxSteps
        /\ req.callback = "parse"
        /\ \E yielded \in {parse_yields[req.url]} :
            /\ pending' = (pending \ {req}) \cup yielded
            /\ last' = [NoCall EXCEPT !.op = "parse", !.url = req.url,
                                      !.result = "yielded",
                                      !.yielded = yielded]
        /\ steps' = steps + 1
        /\ UNCHANGED <<downloaded_files, rootExists, fsDirs, ledger, masterIndex,
                       phase, closedError, writes, appends, ledger0, failed, handed>>
        /\ UNCHANGED batchVars

\* parse_event, mutated: every link that is no allowed file is followed
parse_event_yield_follow_all(url, links) ==
    LET event_name == get_event_name(url)
    IN IF event_name = NoEvent
       THEN {}
       ELSE { Request(urljoin(url, link), "save_file", event_name) :
                link \in {l \in links : is_allowed_file(l)} }
            \cup
            { Request(urljoin(url, link), "parse_event", NoEvent) :
                link \in {l \in links : ~is_allowed_file(l)} }

\* parse_event, mutated: subdirectories are not recursed into
parse_event_yield_flat(url, links) ==
    LET event_name == get_event_name(url)
    IN IF event_name = NoEvent
       THEN {}
       ELSE { Request(urljoin(url, link), "save_file", event_name) :
                link \in {l \in links : is_allowed_file(l)} }

parse_event_yield(url, links) ==
    LET event_name == get_event_name(url)
    IN IF event_name = NoEvent
       THEN {}
       ELSE { Request(urljoin(url, link), "save_file", event_name) :
                link \in {l \in links : is_allowed_file(l)} }
            \cup
            { Request(urljoin(url, link), "parse_event", NoEvent) :
                link \in {l \in links : ~is_allowed_file(l) /\ is_subdirectory(l)} }

parse_event_yields == [u \in Urls |-> parse_event_yield(u, page_links(u))]

event_names == [u \in Urls |-> get_event_name(u)]

filenames == [u \in Urls |-> basename(u)]

parse_event ==
    \E req \in pending :
        /\ phase = "running" /\ steps < MaxSteps
        /\ req.callback = "parse_event"
        /\ \E event_name \in {event_names[req.url]},
              yielded \in {parse_event_yields[req.url]} :
            /\ pending' = (pending \ {req}) \cup yielded
            /\ last' = [NoCall EXCEPT !.op = "parse_event", !.url = req.url,
                                      !.event_name = event_name,
                                      !.result = IF event_name = NoEvent
                                                 THEN "dropped" ELSE "yielded",
                                      !.yielded = yielded]
        /\ steps' = steps + 1
        /\ UNCHANGED <<downloaded_files, rootExists, fsDirs, ledger, masterIndex,
                       phase, closedError, writes, appends, ledger0, failed, handed>>
        /\ UNCHANGED batchVars

(***************************************************************************)
(* ContentStore and MetadataLedger: save_file and update_metadata.         *)
(***************************************************************************)
\* int(response.headers.get('Content-Length', 0))
content_length(header) == IF header.kind = "absent" THEN 0 ELSE header.value

\* line 145, mutated: the size test is dropped
is_too_large_never(header) == FALSE

\* line 145: the declared length exceeds config.max_file_size
is_too_large(header) == content_length(header) > max_file_size

\* line 150, mutated: the seen-set is never consulted
is_duplicate_never(file_hash, seen) == FALSE

\* line 150: file_hash in self.downloaded_files
is_duplicate(file_hash, seen) == file_hash \in seen

\* update_metadata, mutated: the ledger is opened with 'w' instead of 'a'
update_metadata_truncating(led, event_name, filename) ==
    (event_name :> <<filename>>) @@ led

\* update_metadata: open <event>_metadata.txt in append mode (creating it if
\* absent) and write one line
update_metadata(led, event_name, filename) ==
    IF event_name \in DOMAIN led
    THEN [led EXCEPT ![event_name] = Append(@, filename)]
    ELSE (event_name :> <<filename>>) @@ led

\* os.makedirs(event_dir, exist_ok=True)
makedirs(dirs, event_name) ==
    IF event_name \in DOMAIN dirs THEN dirs ELSE (event_name :> EmptyMap) @@ dirs

\* open(filepath, 'wb') followed by f.write(content): the entry is created or
\* replaced
write_file(dirs, event_name, filename, content) ==
    [dirs EXCEPT ![event_name] = (filename :> content) @@ @]

Write(event_name, filename, body) ==
    [event_name |-> event_name, filename |-> filename, body |-> body,
     hash |-> md5(body)]

\* the outcomes in which an operating system error ends save_file
IoErrors == {"makedirs_error", "open_error", "write_error", "append_error"}

\* line 158, mutated: the hash is recorded right after the duplicate test,
\* before the directory is made and the file written
hash_recorded_before_write(result) == result \in IoErrors \cup {"saved"}

\* line 158: the hash is recorded once the file has been written
hash_recorded(result) == result \in {"append_error", "saved"}

\* the outcome of save_file for one response, in the order of the code
save_file_result(header, body, io) ==
    CASE header.kind = "text"                      -> "bad_header"
      [] is_too_large(header)                      -> "too_large"
      [] is_duplicate(md5(body), downloaded_files) -> "duplicate"
      [] io = "makedirs_fails"                     -> "makedirs_error"
      [] io = "open_fails"                         -> "open_error"
      [] io = "write_fails"                        -> "write_error"
      [] io = "append_fails"                       -> "append_error"
      [] OTHER                                     -> "saved"

save_file ==
    \E req \in pending :
      /\ phase = "running" /\ steps < MaxSteps
      /\ req.callback = "save_file"
      /\ pending' = pending \ {req}
      /\ steps' = steps + 1
      /\ handed' = handed \cup {req.url}
      /\ \E filename \in {filenames[req.url]} :
         \E header \in Headers, body \in Bodies, io \in IoOutcomes :
         \E result \in {save_file_result(header, body, io)} :
           LET event_name == req.event_name
               made       == result \in {"open_error", "write_error", "append_error", "saved"}
               written    == result \in {"append_error", "saved"}
           IN
           /\ last' = [NoCall EXCEPT !.op = "save_file", !.url = req.url,
                                     !.event_name = event_name,
                                     !.clen = content_length(header),
                                     !.body = body, !.result = result]
           /\ rootExists' = (rootExists \/ made)
           /\ fsDirs' = IF written
                           THEN write_file(makedirs(fsDirs, event_name), event_name, filename, body)
                        ELSE IF result = "write_error"
                           THEN write_file(makedirs(fsDirs, event_name), event_name, filename, Partial)
                        ELSE IF made
                           THEN makedirs(fsDirs, event_name)
                        ELSE fsDirs
           /\ downloaded_files' = IF hash_recorded(result)
                                  THEN downloaded_files \cup {md5(body)}
                                  ELSE downloaded_files
           /\ failed' = IF result \in IoErrors THEN failed \cup {body} ELSE failed
           /\ writes' = IF written THEN Append(writes, Write(event_name, filename, body))
                        ELSE writes
           /\ ledger' = IF result = "saved"
                        THEN update_metadata(ledger, event_name, filename)
                        ELSE ledger
           /\ appends' = IF result = "saved"
                         THEN Append(appends, <<event_name, filename>>)
                         ELSE appends
      /\ UNCHANGED <<masterIndex, phase, closedError, ledger0>>
      /\ UNCHANGED batchVars

(***************************************************************************)
(* closed: the master index.                                               *)
(***************************************************************************)
\* the orders os.listdir may return the names of S in
RECURSIVE Orderings(_)
Orderings(S) ==
    IF S = {} THEN {<<>>}
    ELSE UNION { {<<x>> \o rest : rest \in Orderings(S \ {x})} : x \in S }

\* one order of the plain files of the root; they write nothing to the index,
\* so only the order of the directories among themselves shows
plain_order(S) == CHOOSE s \in Orderings(S) : TRUE

\* os.listdir(output_dir) while master_index.txt is open for writing
root_entries(dirs, led) ==
    DOMAIN dirs \cup {e \o metadata_txt : e \in DOMAIN led} \cup {master_index_txt}

\* os.path.isdir, mutated: every entry of the root passes
isdir_any(dirs, name) == TRUE

\* os.path.isdir(os.path.join(output_dir, name))
isdir(dirs, name) == name \in DOMAIN dirs

\* for each directory of names, one order os.listdir may return its entries in
RECURSIVE FileOrders(_, _)
FileOrders(dirs, names) ==
    IF names = {} THEN {EmptyMap}
    ELSE LET n == CHOOSE x \in names : TRUE
         IN { (n :> o) @@ f : o \in Orderings(DOMAIN dirs[n]),
                              f \in FileOrders(dirs, names \ {n}) }

listdir_of(fileOrder, name) == IF name \in DOMAIN fileOrder THEN fileOrder[name] ELSE <<>>

RECURSIVE file_lines(_)
file_lines(files) ==
    IF files = <<>> THEN <<>>
    ELSE << <<" ", " ">> \o Head(files) >> \o file_lines(Tail(files))

\* the lines closed() writes, for one order of the root and of each directory
RECURSIVE index_lines(_, _, _)
index_lines(dirs, rootOrder, fileOrder) ==
    IF rootOrder = <<>> THEN <<>>
    ELSE LET name == Head(rootOrder)
             rest == index_lines(dirs, Tail(rootOrder), fileOrder)
         IN IF isdir(dirs, name)
            THEN << name \o <<":">> >> \o file_lines(listdir_of(fileOrder, name)) \o << <<>> >> \o rest
            ELSE rest

closed ==
    /\ phase = "running"
    /\ pending = {}
    /\ phase' = "closed"
    /\ \/ /\ ~rootExists
          /\ closedError' = TRUE
          /\ masterIndex' = masterIndex
       \/ /\ rootExists
          /\ closedError' = FALSE
          /\ \E plainOrder \in {plain_order(root_entries(fsDirs, ledger) \ DOMAIN fsDirs)} :
             \E dirOrder \in Orderings(DOMAIN fsDirs) :
             \E fileOrder \in FileOrders(fsDirs, DOMAIN fsDirs) :
             \E lines \in {index_lines(fsDirs, dirOrder \o plainOrder, fileOrder)} :
                masterIndex' = lines
    /\ last' = [NoCall EXCEPT !.op = "closed"]
    /\ UNCHANGED <<pending, downloaded_files, rootExists, fsDirs, ledger, steps,
                   writes, appends, ledger0, failed, handed>>
    /\ UNCHANGED batchVars


(***************************************************************************)
(* src/summarizer.py: the Summary model and the provider variants.         *)
(***************************************************************************)
Str_Error == <<"E","r","r","o","r">>

Summary(title, main_points, technical_details, implications) ==
    [title |-> title, main_points |-> main_points,
     technical_details |-> technical_details, implications |-> implications]

\* Summary(title="Error", main_points=[], technical_details=[], implications=[])
SentinelSummary == Summary(Str_Error, <<>>, <<>>, <<>>)

NoSummary == Summary(<<>>, <<>>, <<>>, <<>>)

\* the outcome of a call: it returns a Summary or raises, having sent `sent`
Return(summary, sent) == [raised |-> "none", summary |-> summary, sent |-> sent]

Raise(exc, sent) == [raised |-> exc, summary |-> NoSummary, sent |-> sent]

\* the classes of the exceptions of the model, with their base classes
Bases ==
    [ ValueError              |-> {"ValueError"},
      NameError               |-> {"NameError"},
      TypeError               |-> {"TypeError"},
      KeyError                |-> {"KeyError"},
      CohereError             |-> {"CohereError"},
      ConnectionError         |-> {"ConnectionError", "RequestException"},
      HTTPError               |-> {"HTTPError", "RequestException"},
      RequestsJSONDecodeError |-> {"RequestsJSONDecodeError", "RequestException",
                                   "JSONDecodeError", "ValueError"},
      JSONDecodeError         |-> {"JSONDecodeError", "ValueError"},
      ValidationError         |-> {"ValidationError", "ValueError"} ]

\* ---- the free-text parser of the Cohere, OpenAI and Claude variants ----
RECURSIVE lstrip(_, _)
lstrip(line, chars) ==
    IF line # <<>> /\ Head(line) \in chars THEN lstrip(Tail(line), chars) ELSE line

RECURSIVE rstrip(_, _)
rstrip(line, chars) ==
    IF line # <<>> /\ line[Len(line)] \in chars
    THEN rstrip(SubSeq(line, 1, Len(line) - 1), chars)
    ELSE line

\* str.strip(chars): leading and trailing characters of the set are removed
strip(line, chars) == rstrip(lstrip(line, chars), chars)

\* seq[:n]
Take(seq, n) == SubSeq(seq, 1, IF Len(seq) < n THEN Len(seq) ELSE n)

Map_strip(lines, chars) == [i \in 1..Len(lines) |-> strip(lines[i], chars)]

Str_implication == <<"i","m","p","l","i","c","a","t","i","o","n">>

parse_generated_text(generated_text) ==
    LET lines == Split(generated_text, "\n")
        IsPoint(line)  == StartsWith(line, <<"-", " ">>)
        IsDetail(line) == StartsWith(line, <<"*">>)
        IsImpl(line)   == Contains(Lower(line), Str_implication)
    IN Summary(lines[1],
               Take(Map_strip(SelectSeq(lines, IsPoint), {"-", " "}), 3),
               Take(Map_strip(SelectSeq(lines, IsDetail), {"*", " "}), 2),
               Take(SelectSeq(lines, IsImpl), 2))

\* ---- Cohere ----
\* lines 55-57, mutated: the key is not checked before the request
get_cohere_summary_unchecked(key_set, api) ==
    IF api.kind = "error"
    THEN Raise("CohereError", <<"cohere.generate">>)
    ELSE Return(parse_generated_text(api.text), <<"cohere.generate">>)

get_cohere_summary(key_set, api) ==
    IF ~key_set
    THEN Raise("ValueError", <<>>)
    ELSE IF api.kind = "error"
    THEN Raise("CohereError", <<"cohere.generate">>)
    ELSE Return(parse_generated_text(api.text), <<"cohere.generate">>)

\* ---- OpenAI and Claude: after the key check the functions use the names
\* openai (line 122) and Anthropic (line 156), which the module never
\* imports; the use raises NameError before any request is made ----
get_openai_summary(key_set, api) ==
    IF ~key_set THEN Raise("ValueError", <<>>) ELSE Raise("NameError", <<>>)

get_claude_summary(key_set, api) ==
    IF ~key_set THEN Raise("ValueError", <<>>) ELSE Raise("NameError", <<>>)

\* ---- Ollama ----
SummaryKeys == {"title", "main_points", "technical_details", "implications"}

\* pydantic's check of one field of Summary: title is a str, the others
\* lists of str
field_valid(key, value) ==
    IF key = "title" THEN value.type = "str" ELSE value.type = "list_str"

\* Summary(**summary_dict): ** needs a mapping; pydantic then requires every
\* field, with its type, and ignores other keys
construct_Summary(doc, sent) ==
    IF doc.type # "object"
    THEN Raise("TypeError", sent)
    ELSE IF \E k \in SummaryKeys :
                k \notin DOMAIN doc.fields \/ ~field_valid(k, doc.fields[k])
    THEN Raise("ValidationError", sent)
    ELSE Return(Summary(doc.fields["title"].val, doc.fields["main_points"].val,
                        doc.fields["technical_details"].val,
                        doc.fields["implications"].val), sent)

\* lines 107-111: the statements of the try block, up to the first that raises
generate(gen, sent) ==
    CASE gen.kind = "post_raises"     -> Raise("ConnectionError", sent)
      [] gen.kind = "http_error"      -> Raise("HTTPError", sent)
      [] gen.kind = "body_not_json"   -> Raise("RequestsJSONDecodeError", sent)
      [] gen.kind = "no_response_key" -> Raise("KeyError", sent)
      [] gen.kind = "response_not_json" -> Raise("JSONDecodeError", sent)
      [] OTHER                        -> construct_Summary(gen.doc, sent)

\* line 112: except (requests.RequestException, ValidationError, json.JSONDecodeError)
ollama_caught(exc) ==
    {"RequestException", "ValidationError", "JSONDecodeError"} \cap Bases[exc] # {}

\* line 93, mutated: the liveness check is sent but its answer is ignored
liveness_fails_ignored(live) == "none"

\* line 93: requests.get(url) raises when the endpoint is unreachable, and a
\* status other than 200 raises ValueError; "none" when the check passes
liveness_fails(live) ==
    CASE live = "unreachable" -> "ConnectionError"
      [] live # "200"         -> "ValueError"
      [] OTHER                -> "none"

get_ollama_summary(live, gen) ==
    IF liveness_fails(live) # "none"
    THEN Raise(liveness_fails(live), <<"GET /">>)
    ELSE LET r == generate(gen, <<"GET /", "POST /api/generate">>)
         IN IF r.raised # "none" /\ ollama_caught(r.raised)
            THEN Return(SentinelSummary, r.sent)
            ELSE r

\* providers.get(provider, get_cohere_summary)
get_summary_function(name) ==
    IF name \in {"cohere", "ollama", "openai", "claude"} THEN name ELSE "cohere"

\* the environment variable each variant reads
api_key_name(fn) ==
    CASE fn = "cohere" -> "COHERE_API_KEY"
      [] fn = "openai" -> "OPENAI_API_KEY"
      [] fn = "claude" -> "ANTHROPIC_API_KEY"
      [] OTHER         -> "none"

call_provider(fn, keys, env) ==
    CASE fn = "cohere" -> get_cohere_summary(api_key_name(fn) \in keys, env.api)
      [] fn = "openai" -> get_openai_summary(api_key_name(fn) \in keys, env.api)
      [] fn = "claude" -> get_claude_summary(api_key_name(fn) \in keys, env.api)
      [] OTHER         -> get_ollama_summary(env.live, env.gen)


(***************************************************************************)
(* read_pdf and process_talk_pdfs.                                         *)
(***************************************************************************)
RECURSIVE join_pages(_)
join_pages(pages) ==
    IF pages = <<>> THEN <<>> ELSE Head(pages) \o <<"\n">> \o join_pages(Tail(pages))

\* read_pdf: the text of every page followed by "\n"; any exception while
\* opening or reading gives the empty text
read_pdf(pdf) == IF pdf.raises THEN <<>> ELSE join_pages(pdf.pages)

\* what a file of pdf_dir can be: unreadable, a PDF without pages, a PDF
\* with one page of text, a PDF with one page that has no text
PdfFiles ==
    { [raises |-> TRUE,  pages |-> <<>>],
      [raises |-> FALSE, pages |-> <<>>],
      [raises |-> FALSE, pages |-> << <<"H","e","l","l","o"," ","t","a","l","k">> >>],
      [raises |-> FALSE, pages |-> << <<>> >>] }

Str_pdf == <<".","p","d","f">>

Str_summary_json == <<"_","s","u","m","m","a","r","y",".","j","s","o","n">>

\* os.path.splitext(filename)[0]: the name up to its last dot, unless that
\* dot is only preceded by dots
splitext_root(filename) ==
    LET dots == SepPositions(filename, ".")
        lastDot == CHOOSE k \in dots : \A j \in dots : k >= j
    IN IF dots = {} \/ \A i \in 1..(lastDot - 1) : filename[i] = "."
       THEN filename
       ELSE SubSeq(filename, 1, lastDot - 1)

output_filename(filename) == splitext_root(filename) \o Str_summary_json

\* the entries of pdf_dir
T1_pdf == <<"t","1",".","p","d","f">>
T2_pdf == <<"t","2",".","p","d","f">>
U_PDF  == <<"u",".","P","D","F">>

DirEntries == {T1_pdf, T2_pdf, U_PDF}

Providers == {"cohere", "ollama", "openai", "claude", "unknown"}

KeyNames == {"COHERE_API_KEY", "OPENAI_API_KEY", "ANTHROPIC_API_KEY"}

Environs == { {}, {"COHERE_API_KEY"}, KeyNames }

\* ---- what the providers may answer ----
Completion1 == <<"T","\n","-"," ","p","-","\n","*","d","\n",
                 "I","m","p","l","i","c","a","t","i","o","n">>

NoApi == [kind |-> "none", text |-> <<>>]

Apis == { [kind |-> "error", text |-> <<>>], [kind |-> "text", text |-> Completion1] }

JStr(v) == [type |-> "str", val |-> v]

JList(v) == [type |-> "list_str", val |-> v]

JNull == [type |-> "null", val |-> <<>>]

GoodFields ==
    [title |-> JStr(<<"T">>), main_points |-> JList(<< <<"p">> >>),
     technical_details |-> JList(<< <<"d">> >>), implications |-> JList(<<>>)]

\* the JSON documents the `response` field may hold: a Summary, a Summary
\* with one more key, one with a field missing, one with a list field that
\* is a string, one with a null title, an array, and null
Docs ==
    { [type |-> "object", fields |-> GoodFields],
      [type |-> "object", fields |-> ("extra" :> JNull) @@ GoodFields],
      [type |-> "object", fields |-> [k \in SummaryKeys \ {"implications"} |-> GoodFields[k]]],
      [type |-> "object", fields |-> [GoodFields EXCEPT !.main_points = JStr(<<"p">>)]],
      [type |-> "object", fields |-> [GoodFields EXCEPT !.title = JNull]],
      [type |-> "array",  fields |-> EmptyMap],
      [type |-> "null",   fields |-> EmptyMap] }

Gens == { [kind |-> k, doc |-> NoDoc] :
            k \in {"post_raises", "http_error", "body_not_json", "no_response_key",
                   "response_not_json"} }
        \cup { [kind |-> "doc", doc |-> d] : d \in Docs }

Lives == {"200", "500", "unreachable"}

\* the answers the selected variant can meet in one call
ProviderEnvs(fn) ==
    IF fn = "ollama"
    THEN { [live |-> "200", gen |-> g, api |-> NoApi] : g \in Gens }
         \cup { [live |-> l, gen |-> NoGen, api |-> NoApi] : l \in Lives \ {"200"} }
    ELSE { [live |-> "none", gen |-> NoGen, api |-> a] : a \in Apis }

BatchInit ==
    /\ listing \in Orderings(DirEntries)
    /\ no_summary \in BOOLEAN
    /\ provider \in Providers
    /\ environ \in Environs
    /\ summaries = EmptyMap
    /\ bpc = "running"
    /\ raised = "none"
    /\ done = EmptyMap
    /\ lastCall = NoProviderCall

\* lines 201-204, mutated: the no_summary flag is not looked at
wants_summary_ignoring_flag(text, flag) == text # <<>>

\* lines 201-204: a summary is generated for a non-empty text unless
\* no_summary is set
wants_summary(text, flag) == text # <<>> /\ ~flag

\* whether a call of variant fn meets a missing key or a failed liveness check
config_error(fn, keys, env) ==
    IF fn = "ollama" THEN env.live # "200" ELSE api_key_name(fn) \notin keys

Done(nonempty, invoked, config, exc) ==
    [nonempty |-> nonempty, invoked |-> invoked, config_error |-> config, raised |-> exc]

\* line 194: an entry that does not end with '.pdf' is passed over
skip_entry ==
    /\ bpc = "running" /\ listing # <<>>
    /\ ~EndsWith(Head(listing), Str_pdf)
    /\ listing' = Tail(listing)
    /\ UNCHANGED <<no_summary, provider, environ, summaries, bpc, raised, done, lastCall>>
    /\ UNCHANGED spiderVars

\* lines 195-222: one '.pdf' entry
process_pdf ==
    \E pdf \in PdfFiles, env \in ProviderEnvs(get_summary_function(provider)) :
        LET filename == Head(listing)
            text     == read_pdf(pdf)
            fn       == get_summary_function(provider)
            call     == call_provider(fn, environ, env)
        IN
        /\ bpc = "running" /\ listing # <<>>
        /\ EndsWith(filename, Str_pdf)
        /\ listing' = Tail(listing)
        /\ IF wants_summary(text, no_summary)
           THEN /\ lastCall' = [fn |-> fn, key_set |-> api_key_name(fn) \in environ,
                                live |-> env.live, gen |-> env.gen,
                                api |-> env.api.kind, text |-> env.api.text,
                                raised |-> call.raised,
                                summary |-> call.summary, sent |-> call.sent]
                /\ done' = (filename :> Done(TRUE, TRUE, config_error(fn, environ, env), call.raised)) @@ done
                /\ IF call.raised # "none"
                   THEN /\ bpc' = "aborted"
                        /\ raised' = call.raised
                        /\ summaries' = summaries
                   ELSE /\ summaries' = (output_filename(filename) :> call.summary) @@ summaries
                        /\ UNCHANGED <<bpc, raised>>
           ELSE /\ done' = (filename :> Done(text # <<>>, FALSE, FALSE, "none")) @@ done
                /\ UNCHANGED <<summaries, bpc, raised, lastCall>>
        /\ UNCHANGED <<no_summary, provider, environ>>
        /\ UNCHANGED spiderVars

\* the loop has reached the end of the listing: process_talk_pdfs returns
finish ==
    /\ bpc = "running" /\ listing = <<>>
    /\ bpc' = "done"
    /\ UNCHANGED <<listing, no_summary, provider, environ, summaries, raised, done, lastCall>>
    /\ UNCHANGED spiderVars

(***************************************************************************)
(* Specifications.                                                         *)
(***************************************************************************)
SpiderNext == parse \/ parse_event \/ save_file \/ closed

Init == SpiderInit /\ BatchIdle

\* one run of the spider
Spec == Init /\ [][SpiderNext]_vars

\* one run of the spider with an engine that keeps dispatching: as long as a
\* callback or the close signal can be delivered, one eventually is
FairSpec == Spec /\ WF_vars(SpiderNext)

BatchNext == skip_entry \/ process_pdf \/ finish

BatchSpecInit == BatchInit /\ SpiderIdle

\* one call of process_talk_pdfs
BatchSpec == BatchSpecInit /\ [][BatchNext]_vars

(***************************************************************************)
(* Properties of the spider (checked under Spec).                          *)
(***************************************************************************)
Hashes(ws) == {ws[i].hash : i \in 1..Len(ws)}

\* C1: within one run no two successful file writes have bodies with the
\* same content hash: a save_file call whose body hashes like an earlier
\* written one writes nothing.
C1_OneWritePerHash ==
    /\ \A i, j \in 1..Len(writes) : i # j => writes[i].hash # writes[j].hash
    /\ Hashes(writes) = downloaded_files

\* a second response with the payload of the one written before was rejected,
\* and one file write happened in all
C1_Witness ==
    /\ last.op = "save_file" /\ last.result = "duplicate"
    /\ Len(writes) = 1 /\ writes[1].body = last.body

\* C2: a save_file call whose declared Content-Length exceeds max_file_size
\* writes no file, adds no hash to downloaded_files and appends no ledger
\* line: filesystem and seen-set are after the call what they were before.
C2_OversizedLeavesNoTrace ==
    [][ (last'.op = "save_file" /\ steps' = steps + 1 /\ last'.clen > max_file_size)
        => /\ fsDirs' = fsDirs /\ rootExists' = rootExists /\ ledger' = ledger
           /\ masterIndex' = masterIndex /\ downloaded_files' = downloaded_files
           /\ writes' = writes /\ appends' = appends ]_vars

\* an oversized response whose content had not been seen was dropped
C2_Witness ==
    /\ last.op = "save_file" /\ last.clen > max_file_size
    /\ last.result = "too_large"
    /\ md5(last.body) \notin downloaded_files

\* the filenames appended for event e in this run, in the order of the calls
AppendedFor(e) ==
    LET ForE(a) == a[1] = e
        sel == SelectSeq(appends, ForE)
    IN [i \in 1..Len(sel) |-> sel[i][2]]

LedgerBefore(e) == IF e \in DOMAIN ledger0 THEN ledger0[e] ELSE <<>>

AppendEvents == {appends[i][1] : i \in 1..Len(appends)}

DC31 == DEF_CON_ \o <<"3","1">>

IsFileLine(line) == StartsWith(line, <<" ", " ">>)

IsHeaderLine(line) == line # <<>> /\ ~IsFileLine(line)

HeaderPositions == {i \in 1..Len(masterIndex) : IsHeaderLine(masterIndex[i])}

\* the lines between header i and the blank line that ends its block
BlockOf(i) ==
    {k \in (i + 1)..Len(masterIndex) :
        /\ IsFileLine(masterIndex[k])
        /\ \A j \in (i + 1)..k : masterIndex[j] # <<>> /\ ~IsHeaderLine(masterIndex[j])}

\* C8: after closed, master_index.txt has one header line '<name>:' for
\* exactly each subdirectory of the output root and under it one line for
\* exactly each entry of that subdirectory, whoever wrote it; plain files
\* of the root are no events.
C8_IndexListsTheDirectories ==
    (phase = "closed" /\ ~closedError) =>
        /\ \A d \in DOMAIN fsDirs :
              Cardinality({i \in HeaderPositions : masterIndex[i] = d \o <<":">>}) = 1
        /\ \A i \in HeaderPositions :
              \E d \in DOMAIN fsDirs :
                 /\ masterIndex[i] = d \o <<":">>
                 /\ \A f \in DOMAIN fsDirs[d] :
                       Cardinality({k \in BlockOf(i) :
                                       masterIndex[k] = <<" ", " ">> \o f}) = 1
                 /\ \A k \in BlockOf(i) :
                       \E f \in DOMAIN fsDirs[d] : masterIndex[k] = <<" ", " ">> \o f
        /\ \A k \in 1..Len(masterIndex) :
              IsFileLine(masterIndex[k]) => \E i \in HeaderPositions : k \in BlockOf(i)

\* the index was built over a root holding a directory of an earlier run, a
\* file written in this run and ledger files
C8_Witness ==
    /\ phase = "closed" /\ ~closedError
    /\ DC29 \in DOMAIN fsDirs /\ DC31 \in DOMAIN fsDirs
    /\ Len(writes) >= 2 /\ DOMAIN ledger # {}

HasEventSegment(url) ==
    \E i \in 1..Len(Split(url, "/")) : StartsWith(Split(url, "/")[i], DEF_CON_)

\* C10: a page handled by parse_event whose URL has no segment starting
\* with "DEF CON " yields no request and creates no directory or ledger; no
\* download is ever pending for a URL without such a segment.
C10_PagesWithoutEventAreDropped ==
    /\ [](\A r \in pending : r.callback = "save_file" =>
              HasEventSegment(r.url) /\ r.event_name # NoEvent)
    /\ [][ (last'.op = "parse_event" /\ steps' = steps + 1 /\ ~HasEventSegment(last'.url))
           => /\ pending' \subseteq pending
              /\ last'.yielded = {}
              /\ fsDirs' = fsDirs /\ ledger' = ledger /\ rootExists' = rootExists
              /\ downloaded_files' = downloaded_files ]_vars

\* the "Conference Programs" page, which links an allowed file and a
\* subdirectory, was handled and dropped
C10_Witness ==
    /\ last.op = "parse_event" /\ last.result = "dropped"
    /\ last.url = <<"/">> \o L_conf
    /\ \E l \in page_links(last.url) : is_allowed_file(l)
    /\ \E l \in page_links(last.url) : is_subdirectory(l)

\* the requests a page's step yielded for its link l
YieldedFor(l) == {r \in last.yielded : r.url = urljoin(last.url, l)}

\* C11: on an event page with a recognised event name every link yields at
\* most one request: a download carrying the page's event name iff
\* is_allowed_file(link), otherwise a parse_event request iff
\* is_subdirectory(link), otherwise nothing.
C11_OneRequestPerLink ==
    (last.op = "parse_event" /\ HasEventSegment(last.url)) =>
        /\ \A l \in page_links(last.url) :
              /\ Cardinality(YieldedFor(l)) <= 1
              /\ (\E r \in YieldedFor(l) : r.callback = "save_file")
                    <=> is_allowed_file(l)
              /\ (\E r \in YieldedFor(l) : r.callback = "parse_event")
                    <=> (~is_allowed_file(l) /\ is_subdirectory(l))
              /\ \A r \in YieldedFor(l) :
                    r.callback = "save_file" => r.event_name = last.event_name
        /\ \A r \in last.yielded : \E l \in page_links(last.url) : r \in YieldedFor(l)
        /\ last.event_name # NoEvent

\* the page of DEF CON 30 was handled: it links a file, a subdirectory and
\* a page that is neither
C11_Witness ==
    /\ last.op = "parse_event" /\ last.url = <<"/">> \o L_dc30
    /\ \E l \in page_links(last.url) : is_allowed_file(l)
    /\ \E l \in page_links(last.url) : ~is_allowed_file(l) /\ is_subdirectory(l)
    /\ \E l \in page_links(last.url) : ~is_allowed_file(l) /\ ~is_subdirectory(l)
    /\ Cardinality(last.yielded) = 2

\* the I/O failures C12 is about: making the directory, opening or writing
\* the file
WriteFailures == {"makedirs_error", "open_error", "write_error"}

\* C12: an I/O error while making the event directory or writing the file
\* touches that file only: its hash is not added to the seen-set, no ledger
\* line is appended, the other pending requests stay pending in a run that
\* goes on, and a response is rejected as a duplicate only for a hash that
\* was written, so the same content is admitted later.
C12_WriteFailureIsLocal ==
    /\ [][ (last'.op = "save_file" /\ steps' = steps + 1
             /\ last'.result \in WriteFailures)
           => /\ downloaded_files' = downloaded_files
              /\ ledger' = ledger /\ appends' = appends /\ writes' = writes
              /\ phase' = "running"
              /\ \E r \in pending : r.url = last'.url /\ pending' = pending \ {r} ]_vars
    /\ [][ (last'.op = "save_file" /\ steps' = steps + 1
             /\ last'.body \in failed /\ md5(last'.body) \notin Hashes(writes))
           => last'.result # "duplicate" ]_vars

\* a response whose content had failed to be written before was saved
C12_Witness ==
    /\ last.op = "save_file" /\ last.result = "saved"
    /\ last.body \in failed
    /\ Len(writes) = 1
    /\ \E d \in DOMAIN fsDirs : \E f \in DOMAIN fsDirs[d] : fsDirs[d][f] = Partial

\* the pages a listing page leads to: the allowed paths of the start page,
\* the subdirectories of a page with an event name
PagesFrom(url) ==
    IF url = start_url
    THEN {urljoin(url, l) : l \in {k \in page_links(url) : is_allowed_path(k)}}
    ELSE IF HasEventSegment(url)
    THEN {urljoin(url, l) : l \in {k \in page_links(url) :
                                       ~is_allowed_file(k) /\ is_subdirectory(k)}}
    ELSE {}

RECURSIVE ReachableFrom(_, _)
ReachableFrom(pages, n) ==
    IF n = 0 THEN pages
    ELSE ReachableFrom(pages \cup UNION {PagesFrom(u) : u \in pages}, n - 1)

ReachablePages == ReachableFrom({start_url}, Cardinality(DOMAIN Site))

\* the allowed file links of the reachable event listing pages
ExpectedDownloads ==
    UNION { {urljoin(u, l) : l \in {k \in page_links(u) : is_allowed_file(k)}} :
              u \in {v \in ReachablePages : v # start_url /\ HasEventSegment(v)} }

\* C13: on a finite site without link cycles a fairly scheduled crawl
\* eventually has no pending request left, and by then every allowed file
\* link of a reachable event listing page has been handed to save_file.
C13_CrawlTerminatesComplete ==
    /\ <>(pending = {})
    /\ [](pending = {} => ExpectedDownloads \subseteq handed)

\* the crawl has ended having handed over the three files of the site, the
\* one of the subdirectory included
C13_Witness ==
    /\ pending = {} /\ phase = "closed"
    /\ handed = ExpectedDownloads
    /\ <<"/">> \o L_dc30 \o L_sub \o L_apdf \in handed
    /\ Cardinality(handed) = 3

\* C15: once the spider is closed, no request was left pending and the
\* master index has been built without an error, also when no file was
\* admitted and the output root was never created.
C15_IndexBuiltAtTheEnd ==
    phase = "closed" => (pending = {} /\ ~closedError)

\* C16: in a run without any I/O error, every file written by a successful
\* admission still holds the content of that admission, whatever was
\* admitted after it.
C16_AdmittedFilesAreKept ==
    failed = {} =>
        \A i \in 1..Len(writes) :
            fsDirs[writes[i].event_name][writes[i].filename] = writes[i].body

(***************************************************************************)
(* Properties of the batch (checked under BatchSpec).                      *)
(***************************************************************************)
FreeTextVariants == {"cohere", "openai", "claude"}

\* the claim of C4: a provider call that fails (other than by a missing key
\* or a failed liveness check) leaves the sentinel Summary as the PDF's
\* summary file and does not abort the batch.
C4_ProviderFailureGivesSentinel ==
    \A f \in DOMAIN done :
        (done[f].invoked /\ ~done[f].config_error)
        => /\ done[f].raised = "none"
           /\ bpc # "aborted"
           /\ output_filename(f) \in DOMAIN summaries

C6_LivenessFailureShortCircuits ==
    (lastCall.fn = "ollama" /\ lastCall.live # "200")
        => /\ lastCall.raised # "none"
           /\ \A i \in 1..Len(lastCall.sent) : lastCall.sent[i] # "POST /api/generate"
           /\ raised = lastCall.raised /\ bpc = "aborted"

C6_Witness ==
    /\ lastCall.fn = "ollama" /\ lastCall.live = "unreachable"
    /\ lastCall.sent = <<"GET /">>

\* a JSON document of the Summary shape: an object with the four fields,
\* each of its type
MatchesSummaryShape(doc) ==
    /\ doc.type = "object"
    /\ \A k \in SummaryKeys :
          /\ k \in DOMAIN doc.fields
          /\ doc.fields[k].type = (IF k = "title" THEN "str" ELSE "list_str")

\* the failing outcomes of the generation step that C7 names
C7_FailingOutcome ==
    \/ lastCall.gen.kind \in {"post_raises", "http_error", "response_not_json"}
    \/ lastCall.gen.kind = "doc" /\ ~MatchesSummaryShape(lastCall.gen.doc)

\* the claim of C7: once the liveness check has passed, every failing
\* outcome of the generation step returns the sentinel Summary and never
\* raises.
C7_GenerationFailureGivesSentinel ==
    (lastCall.fn = "ollama" /\ lastCall.live = "200" /\ C7_FailingOutcome)
        => lastCall.raised = "none" /\ lastCall.summary = SentinelSummary

\* C9: with its API key variable absent, a Cohere, OpenAI or Claude call
\* raises before any request is sent and the error escapes
\* process_talk_pdfs; the key is looked at only in the call, so a batch
\* that makes no provider call does not raise.
C9_MissingKeyIsFatalAtCallTime ==
    /\ (lastCall.fn \in FreeTextVariants /\ ~lastCall.key_set)
          => /\ lastCall.raised = "ValueError" /\ lastCall.sent = <<>>
             /\ raised = "ValueError" /\ bpc = "aborted"
    /\ (\A f \in DOMAIN done : ~done[f].invoked) => (raised = "none" /\ bpc # "aborted")

\* the Claude variant was called without ANTHROPIC_API_KEY after another PDF
\* had been skipped for its empty text
C9_Witness ==
    /\ lastCall.fn = "claude" /\ ~lastCall.key_set
    /\ \E f \in DOMAIN done : ~done[f].invoked
    /\ bpc = "aborted"

\* the parser as the specification words it: a selected line loses exactly
\* its prefix, the rest of the line is kept as it is
removeprefix(line, prefix) ==
    IF StartsWith(line, prefix) THEN SubSeq(line, Len(prefix) + 1, Len(line)) ELSE line

Map_removeprefix(lines, prefix) ==
    [i \in 1..Len(lines) |-> removeprefix(lines[i], prefix)]

PrefixParser(generated_text) ==
    LET lines == Split(generated_text, "\n")
        IsPoint(line)  == StartsWith(line, <<"-", " ">>)
        IsDetail(line) == StartsWith(line, <<"*">>)
        IsImpl(line)   == Contains(Lower(line), Str_implication)
    IN Summary(lines[1],
               Take(Map_removeprefix(SelectSeq(lines, IsPoint), <<"-", " ">>), 3),
               Take(Map_removeprefix(SelectSeq(lines, IsDetail), <<"*">>), 2),
               Take(SelectSeq(lines, IsImpl), 2))

\* C14: whenever a free-text variant (Cohere, OpenAI, Claude) has parsed a
\* completion text, the Summary it returns has as title the first line, as
\* main points the first 3 lines starting with "- " with exactly that prefix
\* removed, as technical details the first 2 lines starting with "*" with
\* that prefix removed, and as implications the first 2 lines containing
\* "implication", unchanged.
C14_ParserRemovesExactlyThePrefix ==
    (lastCall.fn \in FreeTextVariants /\ lastCall.api = "text" /\ lastCall.raised = "none")
        => lastCall.summary = PrefixParser(lastCall.text)

====
